---- MODULE Spec2Model ----
(***************************************************************************)
(* Model of deepcell/utils/fpn_utils.py: the construction of a Feature     *)
(* Pyramid Network with a semantic segmentation head.                      *)
(*                                                                         *)
(* A tensor is a record of its spatial size (h, w), its channel count (c), *)
(* the name of the graph node it starts from (src) and the sequence of     *)
(* layers applied since (ops).  A level name such as 'P10' is a sequence   *)
(* of one-character strings, so that 'P' + str(level) and                  *)
(* int(re.findall(r'\d+', N)[0]) are computed digit by digit.              *)
(***************************************************************************)
EXTENDS Integers, Sequences, FiniteSets, TLC

\* ------------------------------------------------------------------ bounds
MaxLevel == 5
MaxBackbone == 3
MaxSize == 3
MaxClasses == 3
MaxUpsample == 3

\* ------------------------------------------------------- program constants
feature_size == 256
semantic_upsample_n_filters == 256
semantic_head_n_filters == 128
n_dense == 256
prediction_target_level == 0

VARIABLES
    pc,                 \* position in FPNet and the functions it calls
    inputs,             \* the input tensor
    n_classes,          \* FPNet's n_classes argument
    backbone_levels,    \* the levels the chosen backbone supplies
    backbone_dict,      \* name -> backbone feature
    backbone_names, backbone_features,
    pyramid_names, pyramid_finals, pyramid_upsamples,
    i,                  \* loop index of __create_pyramid_features
    level_calls,        \* the calls of create_pyramid_level, in order
    fpn_names, fpn_features,
    target_level,
    semantic_names, semantic_features,
    k,                  \* loop index of __create_semantic_head
    min_level,          \* the level semantic_prediction parses
    x,                  \* the output tensor of the head
    su_args, su_ret,    \* a stand-alone call of semantic_upsample
    error               \* the list read that raised IndexError, as <<list, index>>

vars == <<pc, inputs, n_classes, backbone_levels, backbone_dict,
          backbone_names, backbone_features,
          pyramid_names, pyramid_finals, pyramid_upsamples, i, level_calls,
          fpn_names, fpn_features, target_level,
          semantic_names, semantic_features, k, min_level, x,
          su_args, su_ret, error>>

\* ------------------------------------------------------------------ names
Digits == <<"0", "1", "2", "3", "4", "5", "6", "7", "8", "9">>

IsDigit(ch) == \E d \in 1..10 : Digits[d] = ch

DigitVal(ch) == (CHOOSE d \in 1..10 : Digits[d] = ch) - 1

RECURSIVE str(_)
str(n) ==
    IF n < 10 THEN <<Digits[n + 1]>>
    ELSE str(n \div 10) \o <<Digits[(n % 10) + 1]>>

RECURSIVE int(_)
int(s) ==
    IF Len(s) = 1 THEN DigitVal(s[1])
    ELSE 10 * int(SubSeq(s, 1, Len(s) - 1)) + DigitVal(s[Len(s)])

\* re.findall(r'\d+', N)[0]: the first maximal run of digits of N
FindDigits(N) ==
    LET p == CHOOSE q \in 1..Len(N) :
                 IsDigit(N[q]) /\ \A r \in 1..(q - 1) : ~IsDigit(N[r])
        e == CHOOSE q \in p..Len(N) :
                 /\ \A r \in p..q : IsDigit(N[r])
                 /\ (q = Len(N) \/ ~IsDigit(N[q + 1]))
    IN  SubSeq(N, p, e)

LevelOf(N) == int(FindDigits(N))

\* the sort key lambda x: int(x[1:])
SortKeyFirstDigit(name) == int(<<name[2]>>)

SortKey(name) == int(Tail(name))

RECURSIVE SortedByKey(_)
SortedByKey(S) ==
    IF S = {} THEN <<>>
    ELSE LET m == CHOOSE a \in S : \A b \in S : SortKey(a) <= SortKey(b)
         IN  <<m>> \o SortedByKey(S \ {m})

Min(S) == CHOOSE a \in S : \A b \in S : a <= b

Reverse(s) == [j \in 1..Len(s) |-> s[Len(s) + 1 - j]]

Last(s) == s[Len(s)]

\* Python's list index check for index j (0-based, negative from the end)
InRange(s, j) == -Len(s) <= j /\ j < Len(s)

\* ---------------------------------------------------------------- tensors
None == [h |-> 0, w |-> 0, c |-> 0, src |-> <<>>, ops |-> <<>>]

\* a reference to a tensor of the graph: where it starts, how many layers
\* it has passed, and its shape
Ref(t) == [src |-> t.src, n |-> Len(t.ops), h |-> t.h, w |-> t.w, c |-> t.c]

\* a layer applied to a tensor: its kind, its name (<<>> when the code gives
\* none), its arguments, and a reference to its second input (to None when
\* it has one input)
Layer(op, name, kernel, strides, filters, other) ==
    [op |-> op, name |-> name, kernel |-> kernel, strides |-> strides,
     filters |-> filters, other |-> Ref(other)]

CeilDiv(a, b) == (a + b - 1) \div b

RECURSIVE Pow2(_)
Pow2(n) == IF n = 0 THEN 1 ELSE 2 * Pow2(n - 1)

\* Conv2D(filters, kernel, strides, padding='same')
Conv2D(filters, kernel, strides, name, t) ==
    [h |-> CeilDiv(t.h, strides), w |-> CeilDiv(t.w, strides), c |-> filters,
     src |-> t.src,
     ops |-> Append(t.ops, Layer("Conv2D", name, kernel, strides, filters, None))]

UpsampleLike(name, t, target) ==
    [h |-> target.h, w |-> target.w, c |-> t.c, src |-> t.src,
     ops |-> Append(t.ops, Layer("UpsampleLike", name, 0, 0, 0, target))]

UpSampling2D(t) ==
    [h |-> 2 * t.h, w |-> 2 * t.w, c |-> t.c, src |-> t.src,
     ops |-> Append(t.ops, Layer("UpSampling2D", <<>>, 2, 0, 0, None))]

SameShape(a, b) == a.h = b.h /\ a.w = b.w /\ a.c = b.c

Add(name, a, b) ==
    [h |-> a.h, w |-> a.w, c |-> a.c, src |-> a.src,
     ops |-> Append(a.ops, Layer("Add", name, 0, 0, 0, b))]

Activation(name, t) ==
    [t EXCEPT !.ops = Append(t.ops, Layer("relu", name, 0, 0, 0, None))]

TensorProduct(n, t) ==
    [t EXCEPT !.c = n,
              !.ops = Append(t.ops, Layer("TensorProduct", <<>>, 0, 0, n, None))]

Unary(op, t) == [t EXCEPT !.ops = Append(t.ops, Layer(op, <<>>, 0, 0, 0, None))]

Reshape(h, w, c, t) ==
    [h |-> h, w |-> w, c |-> c, src |-> t.src,
     ops |-> Append(t.ops, Layer("Reshape", <<>>, 0, 0, 0, None))]

Input(h, w) == [h |-> h, w |-> w, c |-> 1, src |-> <<"I">>, ops |-> <<>>]

\* ------------------------------------------------- create_pyramid_level
reduced_suffix == <<"_", "r", "e", "d", "u", "c", "e", "d">>
upsampled_suffix == <<"_", "u", "p", "s", "a", "m", "p", "l", "e", "d">>
merged_suffix == <<"_", "m", "e", "r", "g", "e", "d">>
relu_suffix == <<"_", "r", "e", "l", "u">>

\* returns <<pyramid_final, pyramid_upsample>>
create_pyramid_level(backbone_input, upsamplelike_input, addition_input, level) ==
    LET reduced_name == <<"C">> \o str(level) \o reduced_suffix
        upsample_name == <<"P">> \o str(level) \o upsampled_suffix
        addition_name == <<"P">> \o str(level) \o merged_suffix
        final_name == <<"P">> \o str(level)
        pyramid == Conv2D(feature_size, 1, 1, reduced_name, backbone_input)
        pyramid_upsample ==
            IF upsamplelike_input # None
            THEN UpsampleLike(upsample_name, pyramid, upsamplelike_input)
            ELSE None
        merged == IF addition_input # None
                  THEN Add(addition_name, pyramid, addition_input)
                  ELSE pyramid
        pyramid_final == Conv2D(feature_size, 3, 1, final_name, merged)
    IN  <<pyramid_final, pyramid_upsample>>

\* the branch of the loop body of __create_pyramid_features taken at index j
\* of n backbone levels
BranchTopFirst(j, n) ==
    IF j = n - 1 THEN "top" ELSE IF j = 0 THEN "bottom" ELSE "middle"

BranchTopOffByOne(j, n) ==
    IF j = 0 THEN "bottom" ELSE IF j = n - 2 THEN "top" ELSE "middle"

Branch(j, n) ==
    IF j = 0 THEN "bottom" ELSE IF j = n - 1 THEN "top" ELSE "middle"

\* ---------------------------------------------------- semantic_upsample
RECURSIVE UpsampleRoundsNoTarget(_, _, _, _, _)
UpsampleRoundsNoTarget(t, j, n_upsample, n_filters, target) ==
    IF j >= n_upsample THEN t
    ELSE LET conv == Conv2D(n_filters, 3, 1, <<>>, t)
         IN  UpsampleRoundsNoTarget(UpSampling2D(conv), j + 1,
                                    n_upsample, n_filters, target)

\* the loop for i in range(n_upsample), from round j on
RECURSIVE UpsampleRounds(_, _, _, _, _)
UpsampleRounds(t, j, n_upsample, n_filters, target) ==
    IF j >= n_upsample THEN t
    ELSE LET conv == Conv2D(n_filters, 3, 1, <<>>, t)
             up == IF j = n_upsample - 1 /\ target # None
                   THEN UpsampleLike(<<>>, conv, target)
                   ELSE UpSampling2D(conv)
         IN  UpsampleRounds(up, j + 1, n_upsample, n_filters, target)

semantic_upsample_loop_only(t, n_upsample, n_filters, target) ==
    UpsampleRounds(t, 0, n_upsample, n_filters, target)

semantic_upsample(t, n_upsample, n_filters, target) ==
    LET looped == UpsampleRounds(t, 0, n_upsample, n_filters, target)
    IN  IF n_upsample = 0
        THEN LET conv == Conv2D(n_filters, 3, 1, <<>>, looped)
             IN  IF target # None THEN UpsampleLike(<<>>, conv, target)
                 ELSE conv
        ELSE looped

\* -------------------------------------------------- semantic_prediction
RECURSIVE SumFeatures(_, _, _)
SumFeatures(acc, features, j) ==
    IF j > Len(features) THEN acc
    ELSE SumFeatures(Add(<<>>, acc, features[j]), features, j + 1)

\* every Add of the sum gets two tensors of one shape
RECURSIVE SumShapesAgree(_, _)
SumShapesAgree(features, j) ==
    j > Len(features)
    \/ (SameShape(features[1], features[j]) /\ SumShapesAgree(features, j + 1))

ParsedFirstLevel(names) == LevelOf(names[1])

ParsedMinLevel(names) == LevelOf(Last(names))

PredictionUpsample(names, features, tlevel, input_target) ==
    semantic_upsample(SumFeatures(features[1], features, 2),
                      ParsedMinLevel(names) - tlevel,
                      semantic_upsample_n_filters, input_target)

\* Reshape keeps the number of elements
ReshapeFits(t, input_target) ==
    t.h * t.w * t.c = input_target.h * input_target.w * t.c

semantic_prediction(names, features, tlevel, input_target, classes) ==
    LET up == PredictionUpsample(names, features, tlevel, input_target)
        reshaped == Reshape(input_target.h, input_target.w, up.c, up)
        dense == Activation(<<>>, Unary("BatchNormalization",
                                        TensorProduct(n_dense, reshaped)))
    IN  Unary("Softmax", TensorProduct(classes, dense))

\* ------------------------------------------------------------ the backbone
\* the feature a backbone supplies at a level: 1/2^level of the input's size
BackboneFeature(level, input) ==
    [h |-> CeilDiv(input.h, Pow2(level)), w |-> CeilDiv(input.w, Pow2(level)),
     c |-> Pow2(level), src |-> <<"C">> \o str(level), ops |-> <<>>]

BackboneName(level) == <<"C">> \o str(level)

\* get_pyramid_layer_outputs: the features of the backbone, by name
get_pyramid_layer_outputs(levels, input) ==
    [name \in {BackboneName(l) : l \in levels}
        |-> BackboneFeature(LevelOf(name), input)]

NoCall == [x |-> None, n_upsample |-> 0, n_filters |-> 0, target |-> None]

Sizes == 1..MaxSize

\* the levels a backbone may supply: the low ones, and 9 and 10, where the
\* names of the backbone and of the pyramid pass from one digit to two
Levels == (0..MaxLevel) \cup {9, 10}

LevelSets ==
    {S \in SUBSET Levels : Cardinality(S) >= 1 /\ Cardinality(S) <= MaxBackbone}

\* every layer treats height and width alike, so w <= h loses no case
InputShapes ==
    {Input(q[1], q[2]) : q \in {r \in Sizes \X Sizes : r[2] <= r[1]}}

\* ------------------------------------------------------------------ FPNet
Init ==
    /\ pc = "FPNet"
    /\ inputs \in InputShapes
    /\ n_classes \in {1, MaxClasses}
    /\ backbone_levels \in LevelSets
    /\ backbone_dict = <<>>
    /\ backbone_names = <<>>
    /\ backbone_features = <<>>
    /\ pyramid_names = <<>>
    /\ pyramid_finals = <<>>
    /\ pyramid_upsamples = <<>>
    /\ i = 0
    /\ level_calls = <<>>
    /\ fpn_names = <<>>
    /\ fpn_features = <<>>
    /\ target_level = 0
    /\ semantic_names = <<>>
    /\ semantic_features = <<>>
    /\ k = 0
    /\ min_level = 0
    /\ x = None
    /\ su_args = NoCall
    /\ su_ret = None
    /\ error = <<>>

\* FPNet up to the call of __create_pyramid_features
GetBackboneOutputs ==
    /\ pc = "FPNet"
    /\ backbone_dict' = get_pyramid_layer_outputs(backbone_levels, inputs)
    /\ backbone_names' = SortedByKey(DOMAIN backbone_dict')
    /\ backbone_features' =
           [j \in 1..Len(backbone_names') |-> backbone_dict'[backbone_names'[j]]]
    /\ pc' = "create_pyramid_features"
    /\ UNCHANGED <<inputs, n_classes, backbone_levels,
                   pyramid_names, pyramid_finals, pyramid_upsamples, i,
                   level_calls, fpn_names, fpn_features, target_level,
                   semantic_names, semantic_features, k, min_level, x,
                   su_args, su_ret, error>>

\* __create_pyramid_features up to its loop: sort ascending, then reverse.
\* The function rebuilds both lists from backbone_dict, a name the file never
\* binds; it is taken to be the mapping from backbone names to features that
\* the lists FPNet passes in come from.
SortAndReverse ==
    /\ pc = "create_pyramid_features"
    /\ LET sorted == SortedByKey(DOMAIN backbone_dict)
       IN  /\ backbone_names' = Reverse(sorted)
           /\ backbone_features' =
                  Reverse([j \in 1..Len(sorted) |-> backbone_dict[sorted[j]]])
    /\ pyramid_names' = <<>>
    /\ pyramid_finals' = <<>>
    /\ pyramid_upsamples' = <<>>
    /\ i' = 0
    /\ pc' = "pyramid_loop"
    /\ UNCHANGED <<inputs, n_classes, backbone_levels, backbone_dict,
                   level_calls, fpn_names, fpn_features, target_level,
                   semantic_names, semantic_features, k, min_level, x,
                   su_args, su_ret, error>>

\* the list reads of one iteration, in program order, as <<list, index>>
LoopReads(j, n) ==
    LET b == Branch(j, n)
    IN  <<(<<"backbone_names", j>>), (<<"backbone_features", j>>)>>
        \o (IF b \in {"bottom", "middle"}
            THEN <<(<<"backbone_features", j + 1>>)>> ELSE <<>>)
        \o (IF b \in {"top", "middle"}
            THEN <<(<<"pyramid_upsamples", -1>>)>> ELSE <<>>)

ReadInRange(r) ==
    CASE r[1] = "backbone_names" -> InRange(backbone_names, r[2])
      [] r[1] = "backbone_features" -> InRange(backbone_features, r[2])
      [] r[1] = "pyramid_upsamples" -> InRange(pyramid_upsamples, r[2])

\* the reads of `reads` that are out of range
BadReads(reads) == {q \in 1..Len(reads) : ~ReadInRange(reads[q])}

\* one iteration of the loop of __create_pyramid_features
PyramidLoop ==
    /\ pc = "pyramid_loop"
    /\ i < Len(backbone_names)
    /\ LET n == Len(backbone_names)
           N == backbone_names[i + 1]
           level == LevelOf(N)
           p_name == <<"P">> \o str(level)
           b == Branch(i, n)
       IN  /\ pyramid_names' = Append(pyramid_names, p_name)
           /\ IF BadReads(LoopReads(i, n)) # {}
              THEN /\ pc' = "IndexError"
                   /\ error' = LoopReads(i, n)[Min(BadReads(LoopReads(i, n)))]
                   /\ UNCHANGED <<pyramid_finals, pyramid_upsamples, i, level_calls>>
              ELSE LET backbone_input == backbone_features[i + 1]
                       upsamplelike_input ==
                           IF b = "top" THEN None ELSE backbone_features[i + 2]
                       addition_input ==
                           IF b = "bottom" THEN None ELSE Last(pyramid_upsamples)
                       reduced == Conv2D(feature_size, 1, 1, <<>>, backbone_input)
                       made == create_pyramid_level(backbone_input, upsamplelike_input,
                                                    addition_input, level)
                   IN  /\ error' = error
                       /\ level_calls' =
                              Append(level_calls,
                                     [level |-> level,
                                      backbone_input |-> backbone_input,
                                      upsamplelike_input |-> upsamplelike_input,
                                      addition_input |-> addition_input])
                       /\ IF addition_input # None /\ ~SameShape(reduced, addition_input)
                          THEN /\ pc' = "ValueError"
                               /\ UNCHANGED <<pyramid_finals, pyramid_upsamples, i>>
                          ELSE /\ pyramid_finals' = Append(pyramid_finals, made[1])
                               /\ pyramid_upsamples' = Append(pyramid_upsamples, made[2])
                               /\ i' = i + 1
                               /\ pc' = "pyramid_loop"
    /\ UNCHANGED <<inputs, n_classes, backbone_levels, backbone_dict,
                   backbone_names, backbone_features,
                   fpn_names, fpn_features, target_level,
                   semantic_names, semantic_features, k, min_level, x,
                   su_args, su_ret>>

\* the two extra levels of __create_pyramid_features
P_minus_2_of_pyramid(N, F) ==
    Conv2D(feature_size, 3, 2, <<"P">> \o str(LevelOf(N) + 1), pyramid_finals[1])

P_minus_2(N, F) ==
    Conv2D(feature_size, 3, 2, <<"P">> \o str(LevelOf(N) + 1), F)

P_minus_1(N, below) ==
    Conv2D(feature_size, 3, 2, <<"P">> \o str(LevelOf(N) + 2),
           Activation(N \o relu_suffix, below))

\* __create_pyramid_features after its loop, to its return into FPNet
PyramidExtra ==
    /\ pc = "pyramid_loop"
    /\ i = Len(backbone_names)
    /\ LET N == backbone_names[1]
           F == backbone_features[1]
           P_minus_2_name == <<"P">> \o str(LevelOf(N) + 1)
           P_minus_1_name == <<"P">> \o str(LevelOf(N) + 2)
           second == P_minus_2(N, F)
           names == <<P_minus_1_name, P_minus_2_name>> \o pyramid_names
           finals == <<P_minus_1(N, second), second>> \o pyramid_finals
       IN  /\ pyramid_names' = Reverse(names)
           /\ pyramid_finals' = Reverse(finals)
           /\ fpn_names' = Reverse(names)
           /\ fpn_features' = Reverse(finals)
    /\ backbone_names' = Reverse(backbone_names)
    /\ backbone_features' = Reverse(backbone_features)
    /\ pc' = "pyramid_returned"
    /\ UNCHANGED <<inputs, n_classes, backbone_levels, backbone_dict,
                   pyramid_upsamples, i, level_calls, target_level,
                   semantic_names, semantic_features, k, min_level, x,
                   su_args, su_ret, error>>

\* FPNet between its two calls: the target level and the slices [0:-1]
TargetAndSlice ==
    /\ pc = "pyramid_returned"
    /\ target_level' = Min({LevelOf(fpn_names[j]) : j \in 1..Len(fpn_names)})
    /\ fpn_names' = SubSeq(fpn_names, 1, Len(fpn_names) - 1)
    /\ fpn_features' = SubSeq(fpn_features, 1, Len(fpn_features) - 1)
    /\ pc' = "create_semantic_head"
    /\ UNCHANGED <<inputs, n_classes, backbone_levels, backbone_dict,
                   backbone_names, backbone_features,
                   pyramid_names, pyramid_finals, pyramid_upsamples, i,
                   level_calls, semantic_names, semantic_features, k,
                   min_level, x, su_args, su_ret, error>>

\* __create_semantic_head up to its loop: both lists reversed in place
HeadReverse ==
    /\ pc = "create_semantic_head"
    /\ fpn_names' = Reverse(fpn_names)
    /\ fpn_features' = Reverse(fpn_features)
    /\ semantic_features' = <<>>
    /\ semantic_names' = <<>>
    /\ k' = 0
    /\ pc' = "head_loop"
    /\ UNCHANGED <<inputs, n_classes, backbone_levels, backbone_dict,
                   backbone_names, backbone_features,
                   pyramid_names, pyramid_finals, pyramid_upsamples, i,
                   level_calls, target_level, min_level, x, su_args, su_ret, error>>

ZipLen(a, b) == IF Len(a) <= Len(b) THEN Len(a) ELSE Len(b)

\* one iteration of the loop of __create_semantic_head
HeadLoop ==
    /\ pc = "head_loop"
    /\ k < ZipLen(fpn_names, fpn_features)
    /\ LET N == fpn_names[k + 1]
           P == fpn_features[k + 1]
           level == LevelOf(N)
           n_upsample == level - target_level
           target == IF Len(semantic_features) > 0
                     THEN Last(semantic_features) ELSE None
       IN  /\ semantic_features' =
                  Append(semantic_features,
                         semantic_upsample(P, n_upsample,
                                           semantic_head_n_filters, target))
           /\ semantic_names' = Append(semantic_names, <<"Q">> \o str(level))
    /\ k' = k + 1
    /\ UNCHANGED <<pc, inputs, n_classes, backbone_levels, backbone_dict,
                   backbone_names, backbone_features,
                   pyramid_names, pyramid_finals, pyramid_upsamples, i,
                   level_calls, fpn_names, fpn_features, target_level,
                   min_level, x, su_args, su_ret, error>>

\* the call of semantic_prediction that ends __create_semantic_head
Predict ==
    /\ pc = "head_loop"
    /\ k = ZipLen(fpn_names, fpn_features)
    /\ min_level' = ParsedMinLevel(semantic_names)
    /\ LET up == PredictionUpsample(semantic_names, semantic_features,
                                    prediction_target_level, inputs)
       IN  IF SumShapesAgree(semantic_features, 2) /\ ReshapeFits(up, inputs)
           THEN /\ x' = semantic_prediction(semantic_names, semantic_features,
                                            prediction_target_level, inputs,
                                            n_classes)
                /\ pc' = "head_returned"
           ELSE /\ x' = x
                /\ pc' = "ValueError"
    /\ UNCHANGED <<inputs, n_classes, backbone_levels, backbone_dict,
                   backbone_names, backbone_features,
                   pyramid_names, pyramid_finals, pyramid_upsamples, i,
                   level_calls, fpn_names, fpn_features, target_level,
                   semantic_names, semantic_features, k, su_args, su_ret, error>>

\* FPNet's return of Model(inputs=inputs, outputs=x)
ReturnModel ==
    /\ pc = "head_returned"
    /\ pc' = "done"
    /\ UNCHANGED <<inputs, n_classes, backbone_levels, backbone_dict,
                   backbone_names, backbone_features,
                   pyramid_names, pyramid_finals, pyramid_upsamples, i,
                   level_calls, fpn_names, fpn_features, target_level,
                   semantic_names, semantic_features, k, min_level, x,
                   su_args, su_ret, error>>

Next ==
    \/ GetBackboneOutputs
    \/ SortAndReverse
    \/ PyramidLoop
    \/ PyramidExtra
    \/ TargetAndSlice
    \/ HeadReverse
    \/ HeadLoop
    \/ Predict
    \/ ReturnModel

Spec == Init /\ [][Next]_vars

\* ------------------------------------------- semantic_upsample on its own
PlainTensor(h, w, c, name) ==
    [h |-> h, w |-> w, c |-> c, src |-> name, ops |-> <<>>]

CallArgs ==
    [x : {PlainTensor(h, w, feature_size, <<"X">>) : h \in Sizes, w \in Sizes},
     n_upsample : (-MaxUpsample)..MaxUpsample,
     n_filters : {semantic_head_n_filters, semantic_upsample_n_filters},
     target : {None} \cup {PlainTensor(h, w, 1, <<"T">>) : h \in Sizes, w \in Sizes}]

InitUpsample ==
    /\ pc = "semantic_upsample"
    /\ su_args \in CallArgs
    /\ su_ret = None
    /\ inputs = None
    /\ n_classes = 0
    /\ backbone_levels = {}
    /\ backbone_dict = <<>>
    /\ backbone_names = <<>>
    /\ backbone_features = <<>>
    /\ pyramid_names = <<>>
    /\ pyramid_finals = <<>>
    /\ pyramid_upsamples = <<>>
    /\ i = 0
    /\ level_calls = <<>>
    /\ fpn_names = <<>>
    /\ fpn_features = <<>>
    /\ target_level = 0
    /\ semantic_names = <<>>
    /\ semantic_features = <<>>
    /\ k = 0
    /\ min_level = 0
    /\ x = None
    /\ error = <<>>

CallSemanticUpsample ==
    /\ pc = "semantic_upsample"
    /\ su_ret' = semantic_upsample(su_args.x, su_args.n_upsample,
                                   su_args.n_filters, su_args.target)
    /\ pc' = "semantic_upsample_returned"
    /\ UNCHANGED <<su_args, inputs, n_classes, backbone_levels, backbone_dict,
                   backbone_names, backbone_features,
                   pyramid_names, pyramid_finals, pyramid_upsamples, i,
                   level_calls, fpn_names, fpn_features, target_level,
                   semantic_names, semantic_features, k, min_level, x, error>>

NextUpsample == CallSemanticUpsample

SpecUpsample == InitUpsample /\ [][NextUpsample]_vars

\* ----------------------------------------------------------- properties
\* the name of the last named layer of t (its src when no layer is named)
RECURSIVE LastNamed(_, _)
LastNamed(t, j) ==
    IF j = 0 THEN t.src
    ELSE IF t.ops[j].name # <<>> THEN t.ops[j].name
    ELSE LastNamed(t, j - 1)

BuiltUnder(t) == LastNamed(t, Len(t.ops))

LevelsOf(names) == [j \in 1..Len(names) |-> LevelOf(names[j])]

StrictlyAscending(q) == \A j \in 1..(Len(q) - 1) : q[j] < q[j + 1]

StrictlyDescending(q) == \A j \in 1..(Len(q) - 1) : q[j] > q[j + 1]

IsResize(layer) == layer.op \in {"UpsampleLike", "UpSampling2D"}

\* the layers of t that resize
Resizes(t) == {j \in 1..Len(t.ops) : IsResize(t.ops[j])}

Max(S) == CHOOSE a \in S : \A b \in S : a >= b

\* the last resizing layer of t is a resize to target
EndsWithResizeTo(t, target) ==
    /\ Resizes(t) # {}
    /\ t.ops[Max(Resizes(t))].op = "UpsampleLike"
    /\ t.ops[Max(Resizes(t))].other = Ref(target)

\* names and tensors are index-aligned: tensors[j] was built under names[j]
AlignedExactly(names, tensors) ==
    /\ Len(names) = Len(tensors)
    /\ \A j \in 1..Len(names) : BuiltUnder(tensors[j]) = names[j]

\* semantic features are unnamed: Q_l is aligned with the feature made from P_l
AlignedByLevel(names, tensors) ==
    /\ Len(names) = Len(tensors)
    /\ \A j \in 1..Len(names) :
           LevelOf(BuiltUnder(tensors[j])) = LevelOf(names[j])

AfterPyramid ==
    pc \in {"pyramid_returned", "create_semantic_head", "head_loop",
            "head_returned", "done"}

InHead == pc \in {"head_loop", "head_returned", "done"}

Predicted == pc \in {"head_returned", "done"}

UpsampleReturned == pc = "semantic_upsample_returned"

\* the layers semantic_upsample added to its argument
AddedLayers ==
    SubSeq(su_ret.ops, Len(su_args.x.ops) + 1, Len(su_ret.ops))

ResizedToTarget ==
    /\ su_ret.h = su_args.target.h
    /\ su_ret.w = su_args.target.w
    /\ EndsWithResizeTo(su_ret, su_args.target)
    /\ \E j \in 1..Len(AddedLayers) :
           /\ AddedLayers[j].op = "Conv2D"
           /\ AddedLayers[j].kernel = 3
           /\ AddedLayers[j].filters = su_args.n_filters

\* C4 as stated: with a target, for every integer n_upsample (positive, zero
\* or negative), semantic_upsample returns a tensor of the target's size,
\* whose last resize is a resize to the target, after at least one 3x3
\* convolution with n_filters filters.
C4_AnyCount ==
    (UpsampleReturned /\ su_args.target # None) => ResizedToTarget

\* C4 as amended: the same, for every n_upsample >= 0.
C4_NonNegativeCount ==
    (UpsampleReturned /\ su_args.target # None /\ su_args.n_upsample >= 0)
        => ResizedToTarget

C4_Witness ==
    /\ UpsampleReturned
    /\ su_args.target # None
    /\ su_args.n_upsample = 2
    /\ su_args.x.h = 1
    /\ su_args.target.h = 3
    /\ su_ret.h = 3
    /\ Len(AddedLayers) = 4

\* C5: __create_semantic_head calls semantic_prediction with semantic_names
\* in strictly decreasing level order, index-aligned with semantic_features,
\* and the level parsed from semantic_names[-1] is the minimum level of all
\* the semantic features.
C5_PredictionOrder ==
    /\ InHead =>
           /\ StrictlyDescending(LevelsOf(semantic_names))
           /\ AlignedByLevel(semantic_names, semantic_features)
    /\ Predicted =>
           /\ Len(semantic_features) >= 1
           /\ min_level =
                  Min({LevelOf(BuiltUnder(semantic_features[j])) :
                          j \in 1..Len(semantic_features)})
           /\ min_level = Min(backbone_levels)

C5_Witness ==
    /\ pc = "head_returned"
    /\ LevelsOf(semantic_names) = <<11, 10, 9, 3>>
    /\ min_level = 3

\* the next coarser backbone level above l
NextCoarser(l) == Min({m \in backbone_levels : m > l})

NextFiner(l) == Max({m \in backbone_levels : m < l})

PastLoop ==
    pc \notin {"FPNet", "create_pyramid_features", "pyramid_loop"}

====
